---- MODULE Spec2Model ----
(***************************************************************************)
(* Hyperlocal marketplace backend: the shop store, the shop service        *)
(* (create / edit / approve / reject / nearby search), the admin controller*)
(* that sets an approval status, and the nearby-shops request handler.     *)
(*                                                                         *)
(* The shop service is written against a document store (find,             *)
(* findByIdAndUpdate, $near); shop.model.js is a second, SQL, data layer   *)
(* with its own nearby query.  Both act here on one abstract shop table.   *)
(*                                                                         *)
(* The specifications share the operations:                                *)
(*   Spec             one shop with every field free: the approval life    *)
(*                    cycle, the searches and the public listing;          *)
(*   SpecNearby       two shops that differ in what a search reads         *)
(*                    (category, position, approval state);                *)
(*   SpecProducts     a shop, its products and their images: deleteShop    *)
(*                    and updateProduct as sequences of store calls;       *)
(*   SpecCoords       the coordinates createShop and updateShop store;     *)
(*   SpecProductData  the price and stock level the product service stores;*)
(*   SpecRace         createShop and updateShop as sequences of store      *)
(*                    calls, two calls at once, and approveShop;           *)
(*   SpecRows         the update functions of the SQL models;              *)
(*   SpecAuth         authenticate, updateUserStatus, the product routes;  *)
(*   SpecOtp          sendOtp, verifyOtp and the expiry timers.            *)
(***************************************************************************)
EXTENDS Integers, Sequences, FiniteSets, TLC

VARIABLES shops, res, products, objects, deleting, updating,
          calls, rows, users, otpStore, now, accounts

vars == <<shops, res, products, objects, deleting, updating,
          calls, rows, users, otpStore, now, accounts>>

\* The product store, the image bucket and the requests in flight that touch
\* them.
prodvars == <<products, objects, deleting, updating>>

\* The shop-service calls in flight, the rows of the SQL data layer, the user
\* accounts, and the one-time-password store with its clock and its accounts.
othervars == <<calls, rows, users, otpStore, now, accounts>>
restvars == <<prodvars, othervars>>

-----------------------------------------------------------------------------
(* Values *)

\* JavaScript's undefined (a field the caller did not supply) and null.
Undef == "undefined"
NULL == "null"

\* An id with no document in the store, and an id whose document was deleted
\* (the store never gives an id twice).
NoShop == [status |-> "none"]
Deleted == [status |-> "deleted"]

\* A product id with no record in the store.
NoProduct == [shop |-> 0]

\* At most MaxProducts products are created.
MaxProducts == 2
ProductIds == 1..MaxProducts

\* Coordinates lie on a grid 0..MaxCoord; the radii of the searches go up to
\* MaxRadius grid steps and their limits up to MaxLimit.
MaxCoord == 1
MaxRadius == 1
MaxLimit == 2

\* Distances are in meters: one grid step is GridStep meters.
GridStep == 1000
Radii == {r * GridStep : r \in 0..MaxRadius}

Users == {"u1", "u2", "adm"}
Names == {"Kirana", "Bakery"}
Addresses == {"1 Main Road", "2 Hill Road"}
Categories == {"grocery", "dairy"}
Phones == {"+911234567890"}
Images == {"imgA"}
Lats == 0..MaxCoord
Lngs == {0}
ApprovalStates == {"pending", "approved", "rejected"}

\* users.user_type of the three principals.
user_type(u) ==
  IF u = "adm" THEN "admin" ELSE IF u = "c1" THEN "customer" ELSE "shopkeeper"

Abs(n) == IF n < 0 THEN -n ELSE n

\* An optional number: <<>> when the caller did not supply it, <<n>> otherwise.
NoNum == <<>>
Num(n) == <<n>>

\* What parseFloat gives for text that is not a number.
NaN == <<0, 0>>
Opt(S) == {Num(n) : n \in S} \cup {NoNum}

\* A stored coordinate that is undefined: the document holds no number there.
NoCoord == 999
Coord(v) == IF v = NoNum THEN NoCoord ELSE v[1]
Stored(c) == IF c = NoCoord THEN NoNum ELSE Num(c)

\* JavaScript truthiness of a string-valued field.
Truthy(v) == v # Undef /\ v # NULL /\ v # ""

-----------------------------------------------------------------------------
(* Responses *)

\* The outcome of the last operation: which operation, for which caller, on which
\* shop, with which result; the status field the request carried (create,
\* edit); for an edit the
\* approval state before it and whether the stored value of a critical field
\* changed; for a search the request, whether the store was queried and the
\* returned list.
NoReq == [latitude |-> NoNum, radius |-> NoNum, limit |-> NoNum]

Response(op, actor, id, code) ==
  [op |-> op, actor |-> actor, id |-> id, code |-> code, inj |-> Undef, was |-> "none",
   crit |-> FALSE, data |-> <<>>, queried |-> FALSE, failed |-> {}, removed |-> {},
   req |-> NoReq]

-----------------------------------------------------------------------------
(* Object storage *)

\* uploadImage: stores the image and returns its public URL.
uploadImage(img) == "https://bucket/" \o img

-----------------------------------------------------------------------------
(* Access control *)

\* authorize(roles): the request passes when the caller's stored type is listed.
authorize(roles, u) == user_type(u) \in roles

Exists(shopId) == shops[shopId] # NoShop /\ shops[shopId] # Deleted

-----------------------------------------------------------------------------
(* ShopService.createShop *)

isValidPhone(phone) == phone \in Phones

\* validateShopData: the set of fields in error.
validateShopData(shopData) ==
  {f \in {"name", "address", "contactPhone", "category", "location"} :
     \/ f = "name" /\ (~Truthy(shopData.name) \/ Len(shopData.name) < 3)
     \/ f = "address" /\ (~Truthy(shopData.address) \/ Len(shopData.address) < 5)
     \/ f = "contactPhone"
          /\ (~Truthy(shopData.contactPhone) \/ ~isValidPhone(shopData.contactPhone))
     \/ f = "category" /\ ~Truthy(shopData.category)
     \/ f = "location" /\ \/ shopData.latitude \in {NoNum, NaN}
                          \/ shopData.longitude \in {NoNum, NaN}}

\* Shop.findOne({ owner: ownerId }).
OwnerHasShop(ownerId) ==
  \E s \in DOMAIN shops : Exists(s) /\ shops[s].owner = ownerId

\* A create request that copies the caller's status field into the document.
NewShop_statusFromRequest(shopData, ownerId) ==
  [owner |-> ownerId,
   name |-> shopData.name,
   category |-> shopData.category,
   address |-> shopData.address,
   bannerImage |-> IF Truthy(shopData.bannerImage)
                   THEN uploadImage(shopData.bannerImage) ELSE NULL,
   lat |-> shopData.latitude[1],
   lng |-> shopData.longitude[1],
   status |-> IF shopData.status = Undef THEN "pending" ELSE shopData.status]

\* new Shop({...}) of createShop: the stored document.
NewShop(shopData, ownerId) ==
  [owner |-> ownerId,
   name |-> shopData.name,
   category |-> shopData.category,
   address |-> shopData.address,
   bannerImage |-> IF Truthy(shopData.bannerImage)
                   THEN uploadImage(shopData.bannerImage) ELSE NULL,
   lat |-> shopData.latitude[1],
   lng |-> shopData.longitude[1],
   status |-> "pending"]

\* The id the store gives the next document.
FreeIds == {s \in DOMAIN shops : shops[s] = NoShop}

\* ShopService.createShop(shopData, ownerId).
CreateShop(ownerId, shopData) ==
  IF validateShopData(shopData) # {} \/ OwnerHasShop(ownerId)
  THEN /\ res' = [Response("createShop", ownerId, 0, "error") EXCEPT !.inj = shopData.status]
       /\ UNCHANGED shops
  ELSE /\ FreeIds # {}
       /\ LET id == CHOOSE s \in FreeIds : \A t \in FreeIds : s <= t IN
          /\ shops' = [shops EXCEPT ![id] = NewShop(shopData, ownerId)]
          /\ res' = [Response("createShop", ownerId, id, "ok") EXCEPT !.inj = shopData.status]

-----------------------------------------------------------------------------
(* ShopService.updateShop *)

\* criticalFieldsChanged of updateShop: a field the request does not carry is
\* undefined, and undefined differs from every stored value.
criticalFieldsChanged(shop, updateData) ==
  \/ updateData.name # shop.name
  \/ updateData.category # shop.category
  \/ updateData.address # shop.address

\* $set: a field the update carries replaces the stored one.
SetField(old, new) == IF new = Undef THEN old ELSE new

\* An edit that never sends the shop back to review.
UpdatedShop_noReview(shop, updateData) ==
  LET banner == IF Truthy(updateData.bannerImage)
                   /\ updateData.bannerImage # shop.bannerImage
                THEN uploadImage(updateData.bannerImage)
                ELSE updateData.bannerImage
      relocate == /\ Truthy(updateData.address)
                  /\ \/ updateData.address # shop.address
                     \/ updateData.latitude # Stored(shop.lat)
                     \/ updateData.longitude # Stored(shop.lng)
  IN [owner |-> shop.owner,
      name |-> SetField(shop.name, updateData.name),
      category |-> SetField(shop.category, updateData.category),
      address |-> SetField(shop.address, updateData.address),
      bannerImage |-> SetField(shop.bannerImage, banner),
      lat |-> IF relocate THEN Coord(updateData.latitude) ELSE shop.lat,
      lng |-> IF relocate THEN Coord(updateData.longitude) ELSE shop.lng,
      status |-> SetField(shop.status, updateData.status)]

\* The document after updateShop's $set: the banner is uploaded when it is new,
\* the location follows the address, an approved shop whose key details changed
\* goes back to pending, and every field of updateData is written.
UpdatedShop(shop, updateData) ==
  LET banner == IF Truthy(updateData.bannerImage)
                   /\ updateData.bannerImage # shop.bannerImage
                THEN uploadImage(updateData.bannerImage)
                ELSE updateData.bannerImage
      relocate == /\ Truthy(updateData.address)
                  /\ \/ updateData.address # shop.address
                     \/ updateData.latitude # Stored(shop.lat)
                     \/ updateData.longitude # Stored(shop.lng)
      status == IF criticalFieldsChanged(shop, updateData) /\ shop.status = "approved"
                THEN "pending"
                ELSE updateData.status
  IN [owner |-> shop.owner,
      name |-> SetField(shop.name, updateData.name),
      category |-> SetField(shop.category, updateData.category),
      address |-> SetField(shop.address, updateData.address),
      bannerImage |-> SetField(shop.bannerImage, banner),
      lat |-> IF relocate THEN Coord(updateData.latitude) ELSE shop.lat,
      lng |-> IF relocate THEN Coord(updateData.longitude) ELSE shop.lng,
      status |-> SetField(shop.status, status)]

\* Whether the stored value of a critical field differs between two documents.
CriticalValueChanged(old, new) ==
  old.name # new.name \/ old.category # new.category \/ old.address # new.address

\* ShopService.updateShop(shopId, updateData, ownerId).
UpdateShop(shopId, updateData, ownerId) ==
  IF ~Exists(shopId)
  THEN /\ res' = [Response("updateShop", ownerId, shopId, "Shop not found")
                    EXCEPT !.inj = updateData.status]
       /\ UNCHANGED shops
  ELSE IF shops[shopId].owner # ownerId
  THEN /\ res' = [Response("updateShop", ownerId, shopId, "Unauthorized")
                    EXCEPT !.inj = updateData.status, !.was = shops[shopId].status]
       /\ UNCHANGED shops
  ELSE LET new == UpdatedShop(shops[shopId], updateData) IN
       /\ shops' = [shops EXCEPT ![shopId] = new]
       /\ res' = [Response("updateShop", ownerId, shopId, "ok")
                    EXCEPT !.inj = updateData.status,
                           !.was = shops[shopId].status,
                           !.crit = CriticalValueChanged(shops[shopId], new)]

-----------------------------------------------------------------------------
(* Admin operations *)

\* approveShop that only acts on a pending shop.
approveShop_onlyPending(shop) ==
  IF shop.status = "pending" THEN [shop EXCEPT !.status = "approved"] ELSE shop

\* findByIdAndUpdate(shopId, { status: 'approved' }).
approveShop(shop) == [shop EXCEPT !.status = "approved"]

\* findByIdAndUpdate(shopId, { status: 'rejected', rejectionReason: reason }).
rejectShop(shop) == [shop EXCEPT !.status = "rejected"]

\* PUT /shops/:id/approve behind router.use(authenticateToken, authorizeAdmin).
ApproveShop(caller, shopId) ==
  /\ IF ~authorize({"admin"}, caller)
     THEN /\ res' = Response("approveShop", caller, shopId, "403")
          /\ UNCHANGED shops
     ELSE IF ~Exists(shopId)
     THEN /\ res' = Response("approveShop", caller, shopId, "Shop not found")
          /\ UNCHANGED shops
     ELSE /\ shops' = [shops EXCEPT ![shopId] = approveShop(shops[shopId])]
          /\ res' = [Response("approveShop", caller, shopId, "ok")
                       EXCEPT !.was = shops[shopId].status]

\* PUT /shops/:id/reject behind the same gate.
RejectShop(caller, shopId) ==
  /\ IF ~authorize({"admin"}, caller)
     THEN /\ res' = Response("rejectShop", caller, shopId, "403")
          /\ UNCHANGED shops
     ELSE IF ~Exists(shopId)
     THEN /\ res' = Response("rejectShop", caller, shopId, "Shop not found")
          /\ UNCHANGED shops
     ELSE /\ shops' = [shops EXCEPT ![shopId] = rejectShop(shops[shopId])]
          /\ res' = [Response("rejectShop", caller, shopId, "ok")
                       EXCEPT !.was = shops[shopId].status]

\* updateShopApprovalValidation: body('status').isIn([...]).
updateShopApprovalValidation(status) == status \in {"pending", "approved", "rejected"}

\* Shop.updateApprovalStatus(id, isApproved, status, reason): one UPDATE that
\* writes is_approved and status together.
updateApprovalStatus(shop, isApproved, status) == [shop EXCEPT !.status = status]

\* shopService.updateShopStatus(shopId, status, reason), the call the admin
\* controller makes: it hands the status to Shop.updateApprovalStatus.
updateShopStatus(shop, status) == updateApprovalStatus(shop, status = "approved", status)

\* admin.controller updateShopApprovalStatus (admin only).
UpdateShopApprovalStatus(caller, shopId, status) ==
  /\ IF ~authorize({"admin"}, caller)
     THEN /\ res' = Response("updateShopApprovalStatus", caller, shopId, "403")
          /\ UNCHANGED shops
     ELSE IF ~updateShopApprovalValidation(status)
     THEN /\ res' = Response("updateShopApprovalStatus", caller, shopId, "400")
          /\ UNCHANGED shops
     ELSE IF ~Exists(shopId)
     THEN /\ res' = Response("updateShopApprovalStatus", caller, shopId, "404")
          /\ UNCHANGED shops
     ELSE /\ shops' = [shops EXCEPT ![shopId] = updateShopStatus(shops[shopId], status)]
          /\ res' = [Response("updateShopApprovalStatus", caller, shopId, "200")
                       EXCEPT !.was = shops[shopId].status]

-----------------------------------------------------------------------------
(* Nearby search *)

\* Defaults of the request handler and the validator's upper limit.
DefaultRadius == 5
DefaultLimit == 20
LimitCeiling == 50

\* The default maxDistance of ShopService.findNearbyShops and the default radius
\* of Shop.findNearby, in meters.
ServiceDefaultRadius == 5000

\* The distance between two points in meters, on the grid: what the store's
\* geometry and geolib.getDistance compute.
getDistance(lat1, lon1, lat2, lon2) ==
  GridStep * (Abs(lat1 - lat2) + Abs(lon1 - lon2))

\* LocationService.calculateDistance: geolib's distance, and 0 when geolib
\* throws (the catch logs the error and returns 0).
calculateDistance(lat1, lon1, lat2, lon2, throws) ==
  IF throws THEN 0 ELSE getDistance(lat1, lon1, lat2, lon2)

\* The distance the store computes for a shop.
ShopDistance(s, lat, lng) == getDistance(lat, lng, shops[s].lat, shops[s].lng)

\* The fourth argument of findNearbyShops as JavaScript passes it: null, a string
\* or a number.
JsNull == [t |-> "null", s |-> "", n |-> 0]
JsStr(v) == [t |-> "str", s |-> v, n |-> 0]
JsNum(v) == [t |-> "num", s |-> "", n |-> v]

\* if (category): null, "" and 0 are falsy.
JsTruthy(x) == (x.t = "str" /\ x.s # "") \/ (x.t = "num" /\ x.n # 0)

\* The query value cast to the type of the string field it is compared with.
CastString(x) == IF x.t = "num" THEN ToString(x.n) ELSE x.s

\* A search that forgets the approval filter.
NearQuery_anyStatus(lat, lng, maxDistance, category) ==
  {s \in DOMAIN shops :
     /\ Exists(s)
     /\ ShopDistance(s, lat, lng) <= maxDistance
     /\ (JsTruthy(category) => shops[s].category = CastString(category))}

\* The documents matching findNearbyShops' query: $near within $maxDistance,
\* status 'approved', and the category when one is given.
NearQuery(lat, lng, maxDistance, category) ==
  {s \in DOMAIN shops :
     /\ Exists(s)
     /\ ShopDistance(s, lat, lng) <= maxDistance
     /\ shops[s].status = "approved"
     /\ (JsTruthy(category) => shops[s].category = CastString(category))}

\* The rows matching Shop.findNearby's WHERE clause.
NearbyRows(lat, lng, radius) ==
  {s \in DOMAIN shops :
     /\ Exists(s)
     /\ shops[s].status = "approved"
     /\ ShopDistance(s, lat, lng) <= radius}

\* The orders in which a store may return a set of shops sorted by distance:
\* shops at equal distance come in any order.
ByDistance(S, lat, lng) ==
  {o \in [1..Cardinality(S) -> S] :
     /\ \A i, j \in 1..Cardinality(S) : i # j => o[i] # o[j]
     /\ \A i, j \in 1..Cardinality(S) :
          i < j => ShopDistance(o[i], lat, lng) <= ShopDistance(o[j], lat, lng)}

\* shops.map(...): each shop with its distance attached; thrown holds the shops
\* for which geolib throws.
WithDistance(o, lat, lng, thrown) ==
  [i \in 1..Len(o) |->
     [id |-> o[i], status |-> shops[o[i]].status,
      meters |-> calculateDistance(lat, lng, shops[o[i]].lat, shops[o[i]].lng,
                                   o[i] \in thrown)]]

\* The rows of the SQL query: the distance is ST_Distance, computed by the store.
WithStoreDistance(o, lat, lng) ==
  [i \in 1..Len(o) |->
     [id |-> o[i], status |-> shops[o[i]].status,
      meters |-> ShopDistance(o[i], lat, lng)]]

Take(seq, n) == SubSeq(seq, 1, IF n < Len(seq) THEN n ELSE Len(seq))

\* ShopService.findNearbyShops(latitude, longitude, maxDistance, category): the
\* lists it may return when geolib throws for the shops in thrown.
findNearbyShops(lat, lng, maxDistance, category, thrown) ==
  {WithDistance(o, lat, lng, thrown) :
     o \in ByDistance(NearQuery(lat, lng, maxDistance, category), lat, lng)}

\* Shop.findNearby(lat, lng, radius, limit): ORDER BY distance LIMIT limit.
findNearby(lat, lng, radius, limit) ==
  {Take(WithStoreDistance(o, lat, lng), limit) :
     o \in ByDistance(NearbyRows(lat, lng, radius), lat, lng)}

\* nearbyShopsValidation: the fields express-validator marks in error.  The
\* chain reads lat and lng, which a request that names its coordinates latitude
\* and longitude does not carry.
nearbyShopsValidation(q) ==
  {"lat", "lng"}
    \cup (IF q.radius # NoNum /\ q.radius[1] < 0 THEN {"radius"} ELSE {})
    \cup (IF q.limit # NoNum /\ (q.limit[1] < 1 \/ q.limit[1] > LimitCeiling)
          THEN {"limit"} ELSE {})

\* The radius and the limit getNearbyShops works with.
RequestRadius(q) == IF q.radius = NoNum THEN DefaultRadius ELSE q.radius[1]
RequestLimit(q) == IF q.limit = NoNum THEN DefaultLimit ELSE q.limit[1]

\* A point the store's geospatial query accepts: numeric, latitude in [-90, 90].
ValidPoint(lat, lng) ==
  /\ lat # NaN /\ lng # NaN
  /\ Abs(lat[1]) <= 90 /\ Abs(lng[1]) <= 180

\* shop.controller getNearbyShops: the responses it may give to the query q
\* (geolib answering).  It answers 400 only when a coordinate is missing, never
\* looks at the validator's result, and calls
\*   findNearbyShops(latitude, longitude, radius, limit)
\* so the limit arrives in the service's category parameter.  The store refuses
\* a point that is not valid and a negative $maxDistance; the service rethrows
\* and the error middleware answers 500.
getNearbyShops(q) ==
  LET req == [latitude |-> q.latitude, radius |-> q.radius, limit |-> q.limit] IN
  IF q.latitude = NoNum \/ q.longitude = NoNum
  THEN {[Response("getNearbyShops", "anyone", 0, "400") EXCEPT !.req = req]}
  ELSE IF ~ValidPoint(q.latitude, q.longitude) \/ RequestRadius(q) < 0
  THEN {[Response("getNearbyShops", "anyone", 0, "500")
           EXCEPT !.req = req, !.queried = TRUE]}
  ELSE {[Response("getNearbyShops", "anyone", 0, "200")
           EXCEPT !.req = req, !.queried = TRUE, !.data = d] :
          d \in findNearbyShops(q.latitude[1], q.longitude[1], RequestRadius(q),
                                JsNum(RequestLimit(q)), {})}

\* GET /api/shops/nearby.
GetNearbyShops(q) ==
  /\ res' \in getNearbyShops(q)
  /\ UNCHANGED shops

\* A direct call of the service's search; geolib may throw for any of the shops
\* the query matched.
FindNearbyShops(lat, lng, maxDistance, category) ==
  /\ \E thrown \in SUBSET NearQuery(lat, lng, maxDistance, category) :
       \E d \in findNearbyShops(lat, lng, maxDistance, category, thrown) :
         res' = [Response("findNearbyShops", "anyone", 0, "ok")
                   EXCEPT !.queried = TRUE, !.data = d, !.failed = thrown,
                          !.req = [latitude |-> Num(lat), radius |-> Num(maxDistance),
                                   limit |-> NoNum]]
  /\ UNCHANGED shops

\* A direct call of the SQL layer's search.
FindNearby(lat, lng, radius, limit) ==
  /\ \E d \in findNearby(lat, lng, radius, limit) :
       res' = [Response("findNearby", "anyone", 0, "ok")
                 EXCEPT !.queried = TRUE, !.data = d,
                        !.req = [latitude |-> Num(lat), radius |-> Num(radius),
                                 limit |-> Num(limit)]]
  /\ UNCHANGED shops

-----------------------------------------------------------------------------
(* Text search and listing *)

\* The lower-case form of the names and categories in use.
Lower(text) ==
  IF text = "Kirana" THEN "kirana" ELSE IF text = "Bakery" THEN "bakery" ELSE text

\* { $regex: query, $options: 'i' }: query occurs in text, whatever the case.
RegexMatch(text, query) ==
  \E i \in 1..(Len(text) - Len(query) + 1) :
    SubSeq(Lower(text), i, i + Len(query) - 1) = Lower(query)

\* The orders in which the store may return a set of documents it does not sort.
AnyOrder(S) ==
  {o \in [1..Cardinality(S) -> S] :
     \A i, j \in 1..Cardinality(S) : i # j => o[i] # o[j]}

Listed(o) == [i \in 1..Len(o) |-> [id |-> o[i], status |-> shops[o[i]].status]]

\* ShopService.searchShops(query): approved shops whose name or category
\* matches.
searchShops(query) ==
  {Listed(o) :
     o \in AnyOrder({s \in DOMAIN shops :
                       /\ Exists(s)
                       /\ shops[s].status = "approved"
                       /\ \/ RegexMatch(shops[s].name, query)
                          \/ RegexMatch(shops[s].category, query)})}

\* ShopService.getAllShops(): Shop.find(), every document.
getAllShops == {Listed(o) : o \in AnyOrder({s \in DOMAIN shops : Exists(s)})}

SearchShops(query) ==
  /\ \E d \in searchShops(query) :
       res' = [Response("searchShops", "anyone", 0, "ok")
                 EXCEPT !.queried = TRUE, !.data = d]
  /\ UNCHANGED <<shops, restvars>>

\* GET /api/shops, a route without authentication.
GetAllShops ==
  /\ \E d \in getAllShops :
       res' = [Response("getAllShops", "anyone", 0, "ok")
                 EXCEPT !.queried = TRUE, !.data = d]
  /\ UNCHANGED <<shops, restvars>>

-----------------------------------------------------------------------------
(* Products and their images *)

\* The products of a shop.
ProductsOf(shopId) ==
  {p \in ProductIds : products[p] # NoProduct /\ products[p].shop = shopId}

FreeProductIds == {p \in ProductIds : products[p] = NoProduct}

\* Prices and stock levels are held in units of 1/Scale, so that a request can
\* carry a number that is not whole.
Scale == 2
IsWhole(n) == n % Scale = 0

\* validateProductData: the set of fields in error (the requests here carry no
\* discount price, specifications or variants).
validateProductData(productData) ==
  {f \in {"name", "price", "category", "stock"} :
     \/ f = "name" /\ (~Truthy(productData.name) \/ Len(productData.name) < 3)
     \/ f = "price" /\ (productData.price = NoNum \/ productData.price[1] <= 0)
     \/ f = "category" /\ ~Truthy(productData.category)
     \/ f = "stock" /\ productData.stock # NoNum /\ productData.stock[1] < 0}

\* new Product({...}) of createProduct: the stored document.
NewProduct(productData, shopId) ==
  [shop |-> shopId,
   imageUrl |-> IF productData.image = Undef THEN NULL
                ELSE uploadImage(productData.image),
   price |-> productData.price[1],
   stock |-> IF productData.stock = NoNum THEN 0 ELSE productData.stock[1]]

\* ProductService.createProduct(productData, shopId): validates the data,
\* uploads the image and saves the product under shopId; the shop itself is not
\* looked up.
CreateProduct(productData, shopId) ==
  /\ IF validateProductData(productData) # {}
     THEN /\ res' = Response("createProduct", "anyone", 0, "error")
          /\ UNCHANGED <<products, objects>>
     ELSE /\ FreeProductIds # {}
          /\ LET id == CHOOSE p \in FreeProductIds : \A q \in FreeProductIds : p <= q
                 new == NewProduct(productData, shopId)
             IN /\ products' = [products EXCEPT ![id] = new]
                /\ objects' = IF new.imageUrl = NULL THEN objects
                               ELSE objects \cup {new.imageUrl}
                /\ res' = Response("createProduct", "anyone", id, "ok")
  /\ UNCHANGED <<shops, deleting, updating>>

\* The electronics catalog: one item, with id 1.
CatalogItems == [c \in {1} |-> [name |-> "Phone X", category |-> "electronics"]]

\* ProductService.createFromCatalog(catalogItemId, customData, shopId): the
\* catalog item's name and category, overridden by the custom data, go to
\* createProduct.
CreateFromCatalog(catalogItemId, customData, shopId) ==
  IF catalogItemId \notin DOMAIN CatalogItems
  THEN /\ res' = Response("createFromCatalog", "anyone", 0, "error")
       /\ UNCHANGED <<shops, prodvars>>
  ELSE CreateProduct(
         [customData EXCEPT
            !.name = SetField(CatalogItems[catalogItemId].name, customData.name),
            !.category = SetField(CatalogItems[catalogItemId].category,
                                  customData.category)],
         shopId)

\* ProductService.updateProduct(productId, updateData, shopId): the product
\* must exist and belong to the shop; then $set writes every field of
\* updateData.
ServiceUpdateProduct(productId, updateData, shopId) ==
  /\ IF products[productId] = NoProduct
     THEN /\ res' = Response("updateProduct", "anyone", productId, "Product not found")
          /\ UNCHANGED products
     ELSE IF products[productId].shop # shopId
     THEN /\ res' = Response("updateProduct", "anyone", productId, "Unauthorized")
          /\ UNCHANGED products
     ELSE /\ products' = [products EXCEPT
                            ![productId].price =
                              IF updateData.price = NoNum THEN @ ELSE updateData.price[1],
                            ![productId].stock =
                              IF updateData.stock = NoNum THEN @ ELSE updateData.stock[1]]
          /\ res' = Response("updateProduct", "anyone", productId, "ok")
  /\ UNCHANGED <<shops, objects, deleting, updating>>

Idle == [pc |-> "idle"]

\* ShopService.deleteShop(shopId), first store call:
\* Product.deleteMany({ shop: shopId }).
DeleteShopProducts(caller, shopId) ==
  /\ deleting[caller] = Idle
  /\ products' = [p \in ProductIds |->
                    IF p \in ProductsOf(shopId) THEN NoProduct ELSE products[p]]
  /\ deleting' = [deleting EXCEPT ![caller] =
                    [pc |-> "products_deleted", shopId |-> shopId,
                     removed |-> ProductsOf(shopId)]]
  /\ UNCHANGED <<shops, res, objects, updating>>

\* ShopService.deleteShop(shopId), second store call:
\* Shop.findByIdAndDelete(shopId), and 'Shop not found' when it finds nothing.
DeleteShopDocument(caller) ==
  /\ deleting[caller] # Idle
  /\ LET shopId == deleting[caller].shopId IN
       IF Exists(shopId)
       THEN /\ shops' = [shops EXCEPT ![shopId] = Deleted]
            /\ res' = [Response("deleteShop", caller, shopId, "ok")
                         EXCEPT !.removed = deleting[caller].removed]
       ELSE /\ res' = [Response("deleteShop", caller, shopId, "error")
                         EXCEPT !.removed = deleting[caller].removed]
            /\ UNCHANGED shops
  /\ deleting' = [deleting EXCEPT ![caller] = Idle]
  /\ UNCHANGED <<products, objects, updating>>

\* s3 deleteImage(url): the object is gone from the bucket.
deleteImage(url) == objects \ {url}

\* product.controller updateProduct up to the removal of the old image: 404 for
\* an unknown product; with a file and a stored image the old image is deleted;
\* without a file the record is written at once.
UpdateProductBegin(productId, file) ==
  /\ updating = Idle
  /\ IF products[productId] = NoProduct
     THEN /\ res' = Response("updateProduct", "anyone", productId, "404")
          /\ UNCHANGED <<products, objects, updating>>
     ELSE IF file = Undef
     THEN /\ res' = Response("updateProduct", "anyone", productId, "200")
          /\ UNCHANGED <<products, objects, updating>>
     ELSE /\ objects' = IF products[productId].imageUrl # NULL
                        THEN deleteImage(products[productId].imageUrl)
                        ELSE objects
          /\ updating' = [pc |-> "old_deleted", id |-> productId, file |-> file]
          /\ UNCHANGED <<products, res>>
  /\ UNCHANGED <<shops, deleting>>

\* The upload of the new image and the write of the record.  The upload may
\* throw ('Failed to upload image'), and the request then ends in the error
\* handler with the record as it was.
UpdateProductFinish(uploadFails) ==
  /\ updating # Idle
  /\ IF uploadFails
     THEN /\ res' = Response("updateProduct", "anyone", updating.id, "500")
          /\ UNCHANGED <<products, objects>>
     ELSE /\ objects' = objects \cup {uploadImage(updating.file)}
          /\ IF products[updating.id] = NoProduct
             THEN /\ res' = Response("updateProduct", "anyone", updating.id, "200")
                  /\ UNCHANGED products
             ELSE /\ products' = [products EXCEPT
                                    ![updating.id].imageUrl = uploadImage(updating.file)]
                  /\ res' = Response("updateProduct", "anyone", updating.id, "200")
  /\ updating' = Idle
  /\ UNCHANGED <<shops, deleting>>

-----------------------------------------------------------------------------
(* The SQL data layer: Shop.update, Product.update, Catalog.update *)

\* The fields each update reads from its argument, and the column each one
\* writes.
ShopColumns ==
  [name |-> "name", bannerUrl |-> "banner_url", address |-> "address",
   whatsapp |-> "whatsapp", location |-> "location"]

ProductColumns ==
  [title |-> "title", price |-> "price", description |-> "description",
   stock |-> "stock", imageUrl |-> "image_url"]

CatalogColumns ==
  [name |-> "name", brand |-> "brand", category |-> "category",
   specs |-> "specs", imageUrl |-> "image_url"]

Tables == {"shops", "products", "electronics_catalog"}

ColumnsOf(table) ==
  IF table = "shops" THEN ShopColumns
  ELSE IF table = "products" THEN ProductColumns
  ELSE CatalogColumns

\* The result of a query that returned no row (the model functions answer null).
NoRow == [id |-> 0]

\* The updates array before updated_at is pushed: the fields of the argument
\* that are not undefined.
Supplied(cols, data) == {k \in DOMAIN cols : data[k] # Undef}

\* An update that writes the row although the argument carries no field.
ModelUpdate_alwaysWrites(cols, row, id, data) ==
  IF row.id # id
  THEN [row |-> row, ret |-> NoRow]
  ELSE LET new == [c \in DOMAIN row |->
                     IF \E k \in Supplied(cols, data) : cols[k] = c
                     THEN data[CHOOSE k \in Supplied(cols, data) : cols[k] = c]
                     ELSE IF c = "updated_at" THEN row.updated_at + 1
                     ELSE row[c]]
       IN [row |-> new, ret |-> new]

\* update(id, data) of the three models: null when no field is supplied;
\* otherwise UPDATE ... SET <supplied columns>, updated_at = NOW() WHERE id = $n
\* RETURNING the row, or null when no row has the id.
ModelUpdate(cols, row, id, data) ==
  IF Supplied(cols, data) = {}
  THEN [row |-> row, ret |-> NoRow]
  ELSE IF row.id # id
  THEN [row |-> row, ret |-> NoRow]
  ELSE LET new == [c \in DOMAIN row |->
                     IF \E k \in Supplied(cols, data) : cols[k] = c
                     THEN data[CHOOSE k \in Supplied(cols, data) : cols[k] = c]
                     ELSE IF c = "updated_at" THEN row.updated_at + 1
                     ELSE row[c]]
       IN [row |-> new, ret |-> new]

\* A table holds one row, with id 1; MaxWrites bounds the writes to it.
MaxWrites == 2

SeedRow(table) ==
  LET cols == ColumnsOf(table) IN
  [c \in {cols[k] : k \in DOMAIN cols} \cup {"id", "updated_at"} |->
     IF c = "id" THEN 1 ELSE IF c = "updated_at" THEN 0 ELSE "old"]

SeedRows == [table |-> "shops", row |-> SeedRow("shops")]

\* Shop.update / Product.update / Catalog.update (id, data) on the table.
Update(id, data) ==
  LET out == ModelUpdate(ColumnsOf(rows.table), rows.row, id, data) IN
  /\ rows.row.updated_at < MaxWrites
  /\ rows' = [rows EXCEPT !.row = out.row]
  /\ res' = [Response("update", rows.table, id, "ok")
               EXCEPT !.data = <<rows.row, data, out.ret>>]
  /\ UNCHANGED <<shops, prodvars, calls, users, otpStore, now, accounts>>

-----------------------------------------------------------------------------
(* Accounts and calls in flight *)

\* Two requests may be inside the shop service at once.
Slots == {"a", "b"}
NoCalls == [c \in Slots |-> [pc |-> "idle"]]

\* users: the shopkeepers, the admin and a customer, all active.
SeedUsers ==
  [u \in Users \cup {"c1"} |-> [is_active |-> TRUE, user_type |-> user_type(u)]]


-----------------------------------------------------------------------------
(* ShopService.createShop and updateShop as sequences of store calls *)

\* createShop up to the owner check: validateShopData, then
\* Shop.findOne({ owner: ownerId }).  The call fails at once when the data are
\* invalid or the owner has a shop; otherwise it goes on to the save.
CreateShopBegin(c, ownerId, shopData) ==
  /\ calls[c].pc = "idle"
  /\ IF validateShopData(shopData) # {}
     THEN /\ res' = Response("createShop", ownerId, 0, "error")
          /\ UNCHANGED calls
     ELSE IF OwnerHasShop(ownerId)
     THEN /\ res' = Response("createShop", ownerId, 0, "User already has a registered shop")
          /\ UNCHANGED calls
     ELSE /\ calls' = [calls EXCEPT ![c] =
                         [pc |-> "owner_checked", owner |-> ownerId, data |-> shopData]]
          /\ UNCHANGED res
  /\ UNCHANGED <<shops, prodvars, rows, users, otpStore, now, accounts>>

\* createShop from the owner check on: new Shop({...}) and shop.save().
CreateShopSave(c) ==
  /\ calls[c].pc = "owner_checked"
  /\ FreeIds # {}
  /\ LET id == CHOOSE s \in FreeIds : \A t \in FreeIds : s <= t IN
     /\ shops' = [shops EXCEPT ![id] = NewShop(calls[c].data, calls[c].owner)]
     /\ res' = Response("createShop", calls[c].owner, id, "ok")
  /\ calls' = [calls EXCEPT ![c] = [pc |-> "idle"]]
  /\ UNCHANGED <<prodvars, rows, users, otpStore, now, accounts>>

\* updateShop up to the write: Shop.findById(shopId), 'Shop not found', the
\* owner check.  The call keeps the document it read.
UpdateShopBegin(c, shopId, updateData, ownerId) ==
  /\ calls[c].pc = "idle"
  /\ IF ~Exists(shopId)
     THEN /\ res' = Response("updateShop", ownerId, shopId, "Shop not found")
          /\ UNCHANGED calls
     ELSE IF shops[shopId].owner # ownerId
     THEN /\ res' = Response("updateShop", ownerId, shopId, "Unauthorized")
          /\ UNCHANGED calls
     ELSE /\ calls' = [calls EXCEPT ![c] =
                         [pc |-> "shop_read", owner |-> ownerId, shopId |-> shopId,
                          data |-> updateData, shop |-> shops[shopId]]]
          /\ UNCHANGED res
  /\ UNCHANGED <<shops, prodvars, rows, users, otpStore, now, accounts>>

\* Whether updateShop adds a location to updateData: the request carries an
\* address, and the address or a coordinate differs from the document read.
Relocates(shop, updateData) ==
  /\ Truthy(updateData.address)
  /\ \/ updateData.address # shop.address
     \/ updateData.latitude # Stored(shop.lat)
     \/ updateData.longitude # Stored(shop.lng)

\* The document after findByIdAndUpdate(shopId, { $set: updateData }): whether
\* the location and the status are part of updateData was decided on the
\* document the call read (shop); the fields that are not part of it are
\* those of the document in the store (current).
WrittenShop(shop, current, updateData) ==
  LET decided == UpdatedShop(shop, updateData)
      relocate == Relocates(shop, updateData)
      status == IF criticalFieldsChanged(shop, updateData) /\ shop.status = "approved"
                THEN "pending"
                ELSE updateData.status
  IN [owner |-> current.owner,
      name |-> SetField(current.name, updateData.name),
      category |-> SetField(current.category, updateData.category),
      address |-> SetField(current.address, updateData.address),
      bannerImage |-> IF updateData.bannerImage = Undef THEN current.bannerImage
                      ELSE decided.bannerImage,
      lat |-> IF relocate THEN Coord(updateData.latitude) ELSE current.lat,
      lng |-> IF relocate THEN Coord(updateData.longitude) ELSE current.lng,
      status |-> SetField(current.status, status)]

\* updateShop's write.
UpdateShopWrite(c) ==
  /\ calls[c].pc = "shop_read"
  /\ LET shopId == calls[c].shopId
         new == WrittenShop(calls[c].shop, shops[shopId], calls[c].data)
     IN /\ shops' = [shops EXCEPT ![shopId] = new]
        /\ res' = [Response("updateShop", calls[c].owner, shopId, "ok")
                     EXCEPT !.was = shops[shopId].status,
                            !.crit = CriticalValueChanged(shops[shopId], new)]
  /\ calls' = [calls EXCEPT ![c] = [pc |-> "idle"]]
  /\ UNCHANGED <<prodvars, rows, users, otpStore, now, accounts>>


-----------------------------------------------------------------------------
(* Authentication, user administration and the product routes *)

\* obj.field in JavaScript: undefined when the object has no such field.
Prop(obj, field) == IF field \in DOMAIN obj THEN obj[field] ELSE Undef

\* A bearer token: the payload generateToken signs (sub, uid, type) and whether
\* jwt.verify accepts it (signed with the secret and not expired).  The type is
\* the user's type when the token was issued.  NoToken is a request without an
\* Authorization header.
NoToken == [valid |-> FALSE, sub |-> "none", uid |-> "none", type |-> "none"]
Token(sub, type) == [valid |-> TRUE, sub |-> sub, uid |-> "fb", type |-> type]

\* The tokens in circulation: one per user, one of u2 issued with type admin,
\* one of a user that is not stored, and one that does not verify.
Tokens ==
  {NoToken, [Token("adm", "admin") EXCEPT !.valid = FALSE],
   Token("u1", "shopkeeper"), Token("u2", "shopkeeper"), Token("u2", "admin"),
   Token("c1", "customer"), Token("adm", "admin"), Token("ghost", "admin")}

\* authenticate that does not look at is_active.
authenticate_anyStoredUser(token) ==
  IF ~token.valid \/ token.sub \notin DOMAIN users
  THEN [code |-> "401"]
  ELSE [code |-> "next",
        user |-> [sub |-> token.sub, uid |-> token.uid, type |-> token.type,
                  role |-> users[token.sub].user_type]]

\* authenticate: 401 unless the token verifies and findUserById(decoded.sub)
\* gives a user that is active; then req.user is the payload, with role set to
\* the stored user_type.
authenticate(token) ==
  IF ~token.valid
  THEN [code |-> "401"]
  ELSE IF token.sub \notin DOMAIN users \/ ~users[token.sub].is_active
  THEN [code |-> "401"]
  ELSE [code |-> "next",
        user |-> [sub |-> token.sub, uid |-> token.uid, type |-> token.type,
                  role |-> users[token.sub].user_type]]

\* A route behind authenticate and authorize(roles): 401, 403, or the handler.
AuthorizedRequest(token, roles) ==
  LET auth == authenticate(token) IN
  /\ res' = [Response("request", token.sub, 0,
                      IF auth.code = "401" THEN "401"
                      ELSE IF auth.user.role \notin roles THEN "403"
                      ELSE "handler")
               EXCEPT !.data = <<token, roles>>]
  /\ UNCHANGED <<shops, prodvars, calls, rows, users, otpStore, now, accounts>>

\* userService.updateUserStatus(userId, isActive): sets is_active of the user
\* and returns the user, or nothing when there is no such user.
updateUserStatus(userId, isActive) ==
  IF userId \in DOMAIN users
  THEN [users EXCEPT ![userId].is_active = isActive]
  ELSE users

\* admin.controller updateUserStatus behind authenticate and
\* authorize(['admin']): 400 for a body that is not boolean, 400 when the target
\* is req.user.id and isActive is false, 404 for an unknown user.  The body's
\* isActive is "true", "false" or some other text.
UpdateUserStatus(token, userId, isActive) ==
  LET auth == authenticate(token)
      code == IF auth.code = "401" THEN "401"
              ELSE IF auth.user.role # "admin" THEN "403"
              ELSE IF isActive \notin {"true", "false"} THEN "400"
              ELSE IF userId = Prop(auth.user, "id") /\ isActive = "false"
              THEN "Cannot deactivate your own account"
              ELSE IF userId \notin DOMAIN users THEN "404"
              ELSE "200"
  IN /\ users' = IF code = "200" THEN updateUserStatus(userId, isActive = "true")
                 ELSE users
     /\ res' = [Response("updateUserStatus", token.sub, userId, code)
                  EXCEPT !.data = <<token, isActive>>]
     /\ UNCHANGED <<shops, prodvars, calls, rows, otpStore, now, accounts>>

\* The check of updateProduct and deleteProduct: a shopkeeper whose shop is not
\* the product's shop is refused.  req.shop is set by no middleware of the
\* product routes, so reading req.shop.id throws.
ProductCheck(user, product) ==
  IF Prop(user, "userType") = "shopkeeper" THEN "500" ELSE "pass"

\* PUT /products/:id (authenticate, upload, updateProductValidation) without a
\* file: 404, the owner check, then the write of the fields of the body.
UpdateProduct(token, productId, price) ==
  LET auth == authenticate(token)
      code == IF auth.code = "401" THEN "401"
              ELSE IF price < 0 THEN "400"
              ELSE IF products[productId] = NoProduct THEN "404"
              ELSE IF ProductCheck(auth.user, products[productId]) # "pass"
              THEN ProductCheck(auth.user, products[productId])
              ELSE "200"
  IN /\ products' = IF code = "200"
                    THEN [products EXCEPT ![productId].price = price]
                    ELSE products
     /\ res' = [Response("updateProduct", token.sub, productId, code)
                  EXCEPT !.data = <<token>>]
     /\ UNCHANGED <<shops, objects, deleting, updating, othervars>>

\* DELETE /products/:id (authenticate): 404, the owner check, then the image
\* and the product are deleted.
DeleteProduct(token, productId) ==
  LET auth == authenticate(token)
      code == IF auth.code = "401" THEN "401"
              ELSE IF products[productId] = NoProduct THEN "404"
              ELSE IF ProductCheck(auth.user, products[productId]) # "pass"
              THEN ProductCheck(auth.user, products[productId])
              ELSE "200"
  IN /\ products' = IF code = "200"
                    THEN [products EXCEPT ![productId] = NoProduct]
                    ELSE products
     /\ objects' = IF code = "200" /\ products[productId].imageUrl # NULL
                   THEN deleteImage(products[productId].imageUrl)
                   ELSE objects
     /\ res' = [Response("deleteProduct", token.sub, productId, code)
                  EXCEPT !.data = <<token>>]
     /\ UNCHANGED <<shops, deleting, updating, othervars>>


-----------------------------------------------------------------------------
(* AuthService: one-time passwords *)

\* Time is in minutes; the clock is observed every Step minutes, up to MaxTime.
\* A stored password is deleted Ttl minutes after it was stored.
Step == 5
MaxTime == 15
Ttl == 10

\* At most MaxSends passwords are in the store at once.
MaxSends == 2

OtpPhones == {"+911234567890"}
Otps == {"111111", "222222"}

\* global.otpStore and the pending timers that delete from it.
NoOtps == [entries |-> {}, timers |-> {}]

\* The verification id: the phone number and Date.now(), encoded.
VerificationId(phoneNumber, time) == <<phoneNumber, time>>

\* storeOTPForVerification: the entry is set under the verification id, and a
\* timer is scheduled that deletes the id Ttl minutes later.
storeOTPForVerification(phoneNumber, otp) ==
  LET id == VerificationId(phoneNumber, now) IN
  [entries |-> {e \in otpStore.entries : e.id # id}
                 \cup {[id |-> id, phoneNumber |-> phoneNumber, storedOtp |-> otp]},
   timers |-> otpStore.timers \cup {[id |-> id, due |-> now + Ttl]}]

\* retrieveOTPInfo: the entries stored under the id (one or none).
retrieveOTPInfo(verificationId) == {e \in otpStore.entries : e.id = verificationId}

\* A store whose timers never delete anything.
Expire_never(store, time) == store

\* The store after the timers due by the given time have run.
Expire(store, time) ==
  [entries |-> {e \in store.entries :
                  ~\E t \in store.timers : t.id = e.id /\ t.due <= time},
   timers |-> {t \in store.timers : t.due > time}]

\* AuthService.sendOtp(phoneNumber): a fresh password is generated, sent and
\* stored; the answer carries the verification id.
SendOtp(phoneNumber, otp) ==
  /\ Cardinality(otpStore.entries) < MaxSends
  /\ otpStore' = storeOTPForVerification(phoneNumber, otp)
  /\ res' = [Response("sendOtp", phoneNumber, 0, "ok")
               EXCEPT !.data = <<VerificationId(phoneNumber, now)>>]
  /\ UNCHANGED <<shops, prodvars, calls, rows, users, now, accounts>>

\* AuthService.verifyOtp(verificationId, otp): fails for an id that is not in
\* the store and for a password other than the stored one; otherwise the user
\* of the phone number is found or created and a token is issued.
VerifyOtp(verificationId, otp) ==
  LET found == retrieveOTPInfo(verificationId) IN
  /\ IF found = {}
     THEN /\ res' = [Response("verifyOtp", "anyone", 0,
                              "Invalid or expired verification ID")
                       EXCEPT !.data = <<verificationId, otp>>]
          /\ UNCHANGED accounts
     ELSE LET otpInfo == CHOOSE e \in found : TRUE IN
          IF otp # otpInfo.storedOtp
          THEN /\ res' = [Response("verifyOtp", "anyone", 0, "Invalid OTP")
                            EXCEPT !.data = <<verificationId, otp>>]
               /\ UNCHANGED accounts
          ELSE /\ accounts' = accounts \cup {otpInfo.phoneNumber}
               /\ res' = [Response("verifyOtp", otpInfo.phoneNumber, 0, "ok")
                            EXCEPT !.data = <<verificationId, otp>>, !.inj = "token"]
  /\ UNCHANGED <<shops, prodvars, calls, rows, users, otpStore, now>>

\* Time passes, and the timers that have become due delete their entries.
Tick ==
  /\ now + Step <= MaxTime
  /\ now' = now + Step
  /\ otpStore' = Expire(otpStore, now + Step)
  /\ res' = Response("tick", "clock", 0, "ok")
  /\ UNCHANGED <<shops, prodvars, calls, rows, users, accounts>>


-----------------------------------------------------------------------------
(* Spec: one shop, every field free *)

\* The create requests: well-formed ones, with either name and position, with or
\* without a banner and with or without a status field of the caller's choosing
\* (edits reach the other field values), and one request per way of failing
\* validation.
BaseShopData ==
  [name |-> "Kirana", address |-> "1 Main Road", category |-> "grocery",
   contactPhone |-> "+911234567890", latitude |-> Num(0), longitude |-> Num(0),
   bannerImage |-> Undef, status |-> Undef]

ValidShopData ==
  [name : Names, address : {"1 Main Road"}, category : {"grocery"},
   contactPhone : Phones,
   latitude : {Num(n) : n \in Lats}, longitude : {Num(n) : n \in Lngs},
   bannerImage : Images \cup {Undef}, status : {Undef, "approved"}]

InvalidShopData ==
  {[BaseShopData EXCEPT !.name = "ab"],
   [BaseShopData EXCEPT !.address = Undef],
   [BaseShopData EXCEPT !.contactPhone = "12345"],
   [BaseShopData EXCEPT !.category = Undef],
   [BaseShopData EXCEPT !.latitude = NoNum]}

ShopDataInputs == ValidShopData \cup InvalidShopData

\* The edit requests: each of name, category, banner and status carried or not;
\* an address is carried together with its coordinates.
UpdateDataInputs ==
  {[name |-> n, category |-> c, address |-> a[1], latitude |-> a[2],
    longitude |-> a[3], bannerImage |-> b, status |-> st] :
     n \in Names \cup {Undef}, c \in Categories \cup {Undef},
     a \in {<<Undef, NoNum, NoNum>>}
             \cup {<<x, Num(la), Num(lo)>> : x \in Addresses, la \in Lats, lo \in Lngs},
     b \in Images \cup {Undef}, st \in {Undef, "approved"}}

\* No product, an empty bucket, no request in flight.
InitProducts ==
  /\ products = [p \in ProductIds |-> NoProduct]
  /\ objects = {}
  /\ deleting = [c \in {"u1", "adm"} |-> Idle]
  /\ updating = Idle

\* No shop-service call in flight, the SQL rows as seeded, the seeded user
\* accounts, an empty one-time-password store at time 0.
InitOther ==
  /\ calls = NoCalls
  /\ rows = SeedRows
  /\ users = SeedUsers
  /\ otpStore = NoOtps
  /\ now = 0
  /\ accounts = {}

Init ==
  /\ shops = [s \in {1} |-> NoShop]
  /\ res = Response("none", "none", 0, "none")
  /\ InitProducts
  /\ InitOther

Next ==
  \/ \E d \in ShopDataInputs : CreateShop("u1", d) /\ UNCHANGED restvars
  \/ \E s \in DOMAIN shops, d \in UpdateDataInputs, o \in Users :
       UpdateShop(s, d, o) /\ UNCHANGED restvars
  \/ \E c \in Users, s \in DOMAIN shops : ApproveShop(c, s) /\ UNCHANGED restvars
  \/ \E c \in Users, s \in DOMAIN shops : RejectShop(c, s) /\ UNCHANGED restvars
  \/ \E c \in Users, s \in DOMAIN shops, st \in ApprovalStates \cup {"open"} :
       UpdateShopApprovalStatus(c, s, st) /\ UNCHANGED restvars
  \/ \E la \in Lats, lo \in Lngs, r \in Radii, c \in Categories \cup {NULL} :
       /\ FindNearbyShops(la, lo, r, IF c = NULL THEN JsNull ELSE JsStr(c))
       /\ UNCHANGED restvars
  \/ \E la \in Lats, lo \in Lngs, r \in Radii, l \in 0..MaxLimit :
       FindNearby(la, lo, r, l) /\ UNCHANGED restvars
  \/ \E query \in {"kir", "DAIRY"} : SearchShops(query)
  \/ GetAllShops

Spec == Init /\ [][Next]_vars

-----------------------------------------------------------------------------
(* SpecNearby: two shops, the fields a search reads *)

\* Category is only required to be a string: shopkeepers may pick numerals.
NearbyCategories == {"grocery", "1", "50"}

NearbyShopData ==
  [name : {"Kirana"}, address : {"1 Main Road"}, category : NearbyCategories,
   contactPhone : Phones,
   latitude : {Num(n) : n \in Lats}, longitude : {Num(n) : n \in Lngs},
   bannerImage : {Undef}, status : {Undef}]

\* Edits that move the shop to another category.
NearbyUpdateData ==
  [name : {Undef}, category : NearbyCategories, address : {Undef},
   latitude : {NoNum}, longitude : {NoNum}, bannerImage : {Undef}, status : {Undef}]

\* The queries of GET /api/shops/nearby: origin (0, 0) or the latitude missing;
\* radius absent, negative, zero or positive; limit absent, zero, small, at the
\* validator's upper limit and far above it; and two queries whose latitude is
\* present but not a latitude (text, 91 degrees).
NearbyRequests ==
  [latitude : {Num(0), NoNum}, longitude : {Num(0)},
   radius : Opt({-1} \cup Radii),
   limit : Opt({0, 1, LimitCeiling, 1000})]
    \cup [latitude : {NaN, Num(91)}, longitude : {Num(0)},
          radius : {NoNum}, limit : {NoNum}]

InitNearby ==
  /\ shops = [s \in {1, 2} |-> NoShop]
  /\ res = Response("none", "none", 0, "none")
  /\ InitProducts
  /\ InitOther

NextNearby ==
  \/ \E o \in {"u1", "u2"}, d \in NearbyShopData : CreateShop(o, d) /\ UNCHANGED restvars
  \/ \E s \in DOMAIN shops, d \in NearbyUpdateData, o \in {"u1", "u2"} :
       UpdateShop(s, d, o) /\ UNCHANGED restvars
  \/ \E s \in DOMAIN shops : ApproveShop("adm", s) /\ UNCHANGED restvars
  \/ \E q \in NearbyRequests : GetNearbyShops(q) /\ UNCHANGED restvars
  \/ \E la \in Lats, lo \in Lngs, r \in Radii, l \in 0..MaxLimit :
       FindNearby(la, lo, r, l) /\ UNCHANGED restvars

SpecNearby == InitNearby /\ [][NextNearby]_vars

-----------------------------------------------------------------------------
(* SpecProducts: shops, their products and the product images *)

\* The files a request may carry: a product is created with or without the
\* first, and updated with or without the second.
CreateFiles == {"imgA", Undef}
UpdateFiles == {"imgB", Undef}

\* A well-formed product: a price of 2.5, no stock level given.
BaseProductData ==
  [name |-> "Phone X", category |-> "electronics", price |-> Num(5), stock |-> NoNum,
   image |-> Undef]

InitProductsSpec ==
  /\ shops = [s \in {1} |-> NoShop]
  /\ res = Response("none", "none", 0, "none")
  /\ InitProducts
  /\ InitOther

\* Products are created for shops that exist when the request is made; a shop
\* is deleted by its owner or by the admin, and two such requests may overlap.
NextProducts ==
  \/ CreateShop("u1", BaseShopData) /\ UNCHANGED restvars
  \/ \E s \in DOMAIN shops, f \in CreateFiles :
       /\ Exists(s)
       /\ CreateProduct([BaseProductData EXCEPT !.image = f], s)
       /\ UNCHANGED othervars
  \/ \E c \in DOMAIN deleting, s \in DOMAIN shops :
       DeleteShopProducts(c, s) /\ UNCHANGED othervars
  \/ \E c \in DOMAIN deleting : DeleteShopDocument(c) /\ UNCHANGED othervars
  \/ \E p \in ProductIds, f \in UpdateFiles :
       UpdateProductBegin(p, f) /\ UNCHANGED othervars
  \/ \E uploadFails \in BOOLEAN : UpdateProductFinish(uploadFails) /\ UNCHANGED othervars

SpecProducts == InitProductsSpec /\ [][NextProducts]_vars

-----------------------------------------------------------------------------
(* SpecCoords: one shop, the coordinates a request may carry *)

\* Create requests with a latitude and a longitude that are absent, inside the
\* valid range, at its edge, or beyond it.
CoordShopData ==
  {[BaseShopData EXCEPT !.latitude = la, !.longitude = lo] :
     la \in {NoNum, Num(0), Num(90), Num(91)}, lo \in {NoNum, Num(0), Num(181)}}

\* Edits of the address and the position, each part carried or not.
CoordUpdateData ==
  [name : {Undef}, category : {Undef}, address : Addresses \cup {Undef},
   latitude : {NoNum, Num(0), Num(1), Num(-91)}, longitude : {NoNum, Num(0)},
   bannerImage : {Undef}, status : {Undef}]

NextCoords ==
  \/ \E d \in CoordShopData : CreateShop("u1", d) /\ UNCHANGED restvars
  \/ \E s \in DOMAIN shops, d \in CoordUpdateData :
       UpdateShop(s, d, "u1") /\ UNCHANGED restvars
  \/ \E s \in DOMAIN shops : ApproveShop("adm", s) /\ UNCHANGED restvars

SpecCoords == Init /\ [][NextCoords]_vars


-----------------------------------------------------------------------------
(* SpecProductData: the price and the stock level of a product *)

\* Prices -1, 0 and 2.5 or none; stock levels -1, 1.5 and 2 or none.
ProductDataInputs ==
  [name : {Undef, "Phone X"}, category : {Undef, "electronics"},
   price : {NoNum, Num(-Scale), Num(0), Num(5)},
   stock : {NoNum, Num(-Scale), Num(3), Num(2 * Scale)},
   image : {Undef}]

NextProductData ==
  \/ \E d \in ProductDataInputs : CreateProduct(d, 1) /\ UNCHANGED othervars
  \/ \E c \in {1, 2}, d \in ProductDataInputs :
       CreateFromCatalog(c, d, 1) /\ UNCHANGED othervars
  \/ \E p \in ProductIds, d \in ProductDataInputs, s \in {1, 2} :
       ServiceUpdateProduct(p, d, s) /\ UNCHANGED othervars

SpecProductData == InitProductsSpec /\ [][NextProductData]_vars


-----------------------------------------------------------------------------
(* SpecRace: two calls inside the shop service at once *)

\* Edits of the first shop: a new name, or an address with its coordinates.
RaceUpdateData ==
  {[name |-> n, category |-> Undef, address |-> a[1], latitude |-> a[2],
    longitude |-> a[3], bannerImage |-> Undef, status |-> Undef] :
     n \in {Undef, "Bakery"},
     a \in {<<Undef, NoNum, NoNum>>, <<"1 Main Road", Num(0), Num(0)>>,
            <<"2 Hill Road", Num(1), Num(0)>>}}
    \ {[name |-> Undef, category |-> Undef, address |-> Undef, latitude |-> NoNum,
        longitude |-> NoNum, bannerImage |-> Undef, status |-> Undef]}

InitRace ==
  /\ shops = [s \in {1, 2} |-> NoShop]
  /\ res = Response("none", "none", 0, "none")
  /\ InitProducts
  /\ InitOther

NextRace ==
  \/ \E c \in Slots : CreateShopBegin(c, "u1", BaseShopData)
  \/ \E c \in Slots : CreateShopSave(c)
  \/ \E c \in Slots, d \in RaceUpdateData : UpdateShopBegin(c, 1, d, "u1")
  \/ \E c \in Slots : UpdateShopWrite(c)
  \/ ApproveShop("adm", 1) /\ UNCHANGED restvars

SpecRace == InitRace /\ [][NextRace]_vars


-----------------------------------------------------------------------------
(* SpecRows: the update functions of the SQL data layer *)

\* The arguments of update: each field absent or carrying a new value; the
\* first field of each table (name, title) may also carry null.
RowInputs(cols) ==
  {d \in [DOMAIN cols -> {Undef, "new", NULL}] :
     \A k \in DOMAIN cols : d[k] = NULL => k \in {"name", "title"}}

\* One of the three tables, holding the seeded row.
InitRows ==
  /\ shops = [s \in {1} |-> NoShop]
  /\ res = Response("none", "none", 0, "none")
  /\ InitProducts
  /\ calls = NoCalls
  /\ rows \in {[table |-> t, row |-> SeedRow(t)] : t \in Tables}
  /\ users = SeedUsers
  /\ otpStore = NoOtps
  /\ now = 0
  /\ accounts = {}

\* update(id, data) for the id of the row and for an id no row has.
NextRows ==
  \E id \in {1, 2}, d \in RowInputs(ColumnsOf(rows.table)) : Update(id, d)

SpecRows == InitRows /\ [][NextRows]_vars


-----------------------------------------------------------------------------
(* SpecAuth: tokens, accounts and the routes behind authenticate *)

\* The shopkeeper u1 opens a shop and lists products; any holder of a token
\* calls the routes; admins switch accounts on and off.
NextAuth ==
  \/ CreateShop("u1", BaseShopData) /\ UNCHANGED restvars
  \/ /\ Exists(1)
     /\ CreateProduct([BaseProductData EXCEPT !.image = "imgA"], 1)
     /\ UNCHANGED othervars
  \/ \E t \in Tokens, roles \in {{"admin"}, {"shopkeeper", "admin"}} :
       AuthorizedRequest(t, roles)
  \/ \E t \in Tokens, u \in {"u2", "adm", "ghost"}, a \in {"true", "false", "yes"} :
       UpdateUserStatus(t, u, a)
  \/ \E t \in Tokens, p \in ProductIds, price \in {-1, 7} : UpdateProduct(t, p, price)
  \/ \E t \in Tokens, p \in ProductIds : DeleteProduct(t, p)

SpecAuth == InitProductsSpec /\ [][NextAuth]_vars


-----------------------------------------------------------------------------
(* SpecOtp: sending and verifying one-time passwords *)

\* verifyOtp is called with any id sendOtp may have returned so far, or with
\* one it never returned, and with either password.
NextOtp ==
  \/ \E p \in OtpPhones, otp \in Otps : SendOtp(p, otp)
  \/ \E p \in OtpPhones \cup {"+910000000000"}, t \in 0..now, otp \in Otps :
       t % Step = 0 /\ VerifyOtp(VerificationId(p, t), otp)
  \/ Tick

SpecOtp == Init /\ [][NextOtp]_vars


-----------------------------------------------------------------------------
(* Properties of the approval life cycle (Spec) *)

IsSearch == res.op \in {"findNearbyShops", "findNearby", "getNearbyShops"}

\* C1: every shop a nearby search returns is approved in the store at the time
\* of the query; pending and rejected shops are left out however close they are.
C1_SearchReturnsOnlyApproved ==
  IsSearch =>
    \A i \in 1..Len(res.data) :
      /\ res.data[i].status = "approved"
      /\ shops[res.data[i].id].status = "approved"

C1_Witness == IsSearch /\ Len(res.data) > 0

C3_OnlyAdminDecides ==
  [][\A s \in DOMAIN shops :
       (/\ shops'[s] # NoShop
        /\ shops'[s].status \in {"approved", "rejected"}
        /\ shops'[s].status # shops[s].status)
         => user_type(res'.actor) = "admin"]_vars

\* C4: a successful edit of an approved shop that changes the stored name,
\* category or address leaves the shop pending.
C4_CriticalEditReverts ==
  (res.op = "updateShop" /\ res.code = "ok" /\ res.was = "approved" /\ res.crit)
    => shops[res.id].status = "pending"

C4_Witness ==
  res.op = "updateShop" /\ res.code = "ok" /\ res.was = "approved" /\ res.crit

\* C5: a successful edit of an approved shop that changes none of the stored
\* name, category and address, and carries no status field, leaves it approved.
C5_OtherEditKeepsApproved ==
  (/\ res.op = "updateShop" /\ res.code = "ok" /\ res.was = "approved"
   /\ ~res.crit /\ res.inj = Undef)
    => shops[res.id].status = "approved"

\* C6: whenever the status of a stored shop changes, the change is one of
\* pending -> approved, pending -> rejected, approved -> pending and
\* rejected -> pending.
StatusEdges ==
  {<<"pending", "approved">>, <<"pending", "rejected">>,
   <<"approved", "pending">>, <<"rejected", "pending">>}

C6_OnlyListedStatusChanges ==
  [][\A s \in DOMAIN shops :
       (shops[s] # NoShop /\ shops'[s] # NoShop /\ shops'[s].status # shops[s].status)
         => <<shops[s].status, shops'[s].status>> \in StatusEdges]_vars

\* C7: no status is terminal.  In every reachable state a shop that is not
\* approved can be approved, a shop that is not rejected can be rejected, and an
\* approved shop can be sent back to pending by its owner's edit; hence from
\* each status each other status is reachable (rejected reaches pending through
\* approved).
C7_NoTerminalStatus ==
  \A s \in DOMAIN shops :
    Exists(s) =>
      /\ shops[s].status # "approved"
           => ENABLED (ApproveShop("adm", s) /\ shops'[s].status = "approved")
      /\ shops[s].status # "rejected"
           => ENABLED (RejectShop("adm", s) /\ shops'[s].status = "rejected")
      /\ shops[s].status = "approved"
           => ENABLED (\E d \in UpdateDataInputs :
                         /\ UpdateShop(s, d, shops[s].owner)
                         /\ shops'[s].status = "pending")

C7_Witness ==
  res.op = "approveShop" /\ res.code = "ok" /\ res.was = "rejected"

\* C16: a search in which the distance computation failed for some shop fails
\* as a whole: it does not return a list.
C16_SearchAllOrNothing ==
  (res.op = "findNearbyShops" /\ res.failed # {}) => res.code # "ok"

\* C19: an edit-shop request changes the shop if and only if the shop exists and
\* the caller is its owner or an admin; for an unknown shop it ends in 'Shop not
\* found' and for any other caller in 'Unauthorized'.
C19_OwnerOrAdminEdits ==
  res.op = "updateShop" =>
    /\ res.code = "ok" <=>
         /\ res.was # "none"
         /\ (shops[res.id].owner = res.actor \/ user_type(res.actor) = "admin")
    /\ res.was = "none" => res.code = "Shop not found"
    /\ (res.was # "none" /\ res.code # "ok") => res.code = "Unauthorized"

\* C20: every shop the text search or the public listing returns is approved.
C20_PublicListsOnlyApproved ==
  res.op \in {"searchShops", "getAllShops"} =>
    \A i \in 1..Len(res.data) : res.data[i].status = "approved"

-----------------------------------------------------------------------------
(* Properties of the nearby-shops request (SpecNearby) *)

NearbyAnswered == res.op = "getNearbyShops"

\* C8: the list a nearby-shops response carries is no longer than the limit the
\* request works with and no longer than the ceiling of 50.
C8_CountWithinLimit ==
  (NearbyAnswered /\ res.code = "200") =>
    /\ Len(res.data) <= (IF res.req.limit = NoNum THEN DefaultLimit ELSE res.req.limit[1])
    /\ Len(res.data) <= LimitCeiling

\* C9: a request whose limit is above the ceiling is answered as the same
\* request with the limit set to the ceiling would be.
C9_LimitClampedToCeiling ==
  (NearbyAnswered /\ res.req.limit # NoNum /\ res.req.limit[1] > LimitCeiling) =>
    LET atCeiling ==
          [latitude |-> IF res.code = "400" THEN NoNum ELSE Num(0),
           longitude |-> Num(0),
           radius |-> res.req.radius,
           limit |-> Num(LimitCeiling)]
    IN \E r \in getNearbyShops(atCeiling) : r.code = res.code /\ r.data = res.data

\* C10: a nearby-shops request whose radius is zero or negative is answered 400
\* and the store is not queried.
C10_NonPositiveRadiusRejected ==
  (NearbyAnswered /\ res.req.radius # NoNum /\ res.req.radius[1] <= 0) =>
    (res.code = "400" /\ ~res.queried)

\* C11: a nearby-shops request that omits the radius is answered as the same
\* request with a radius of 5000 meters would be.
C11_DefaultRadiusIs5000Meters ==
  (NearbyAnswered /\ res.code = "200" /\ res.req.radius = NoNum) =>
    LET explicit ==
          [latitude |-> res.req.latitude, longitude |-> Num(0),
           radius |-> Num(ServiceDefaultRadius), limit |-> res.req.limit]
    IN \E r \in getNearbyShops(explicit) : r.code = res.code /\ r.data = res.data

\* C12: a nearby-shops request whose latitude is missing, not a number or
\* outside [-90, 90] is answered 400 without a store query, and a request whose
\* latitude is 0 is not answered 400.
C12_InvalidOriginRejected ==
  NearbyAnswered =>
    /\ (res.req.latitude = NoNum \/ ~ValidPoint(res.req.latitude, Num(0)))
         => (res.code = "400" /\ ~res.queried)
    /\ res.req.latitude = Num(0) => res.code # "400"

\* C13: a search result is sorted by non-decreasing distance and shops at the
\* same distance come in the order of their ids.
C13_SortedWithTieBreak ==
  IsSearch =>
    \A i, j \in 1..Len(res.data) :
      i < j =>
        \/ res.data[i].meters < res.data[j].meters
        \/ /\ res.data[i].meters = res.data[j].meters
           /\ res.data[i].id < res.data[j].id

Ids(d) == {d[i].id : i \in 1..Len(d)}

\* C14: for the same origin, limit and store content, every shop in the result
\* of a search is in the result of the search with any larger radius.
C14_RadiusMonotone ==
  /\ res.op = "findNearby" =>
       \A r2 \in Radii :
         r2 >= res.req.radius[1] =>
           \A d2 \in findNearby(res.req.latitude[1], 0, r2, res.req.limit[1]) :
             Ids(res.data) \subseteq Ids(d2)
  /\ (NearbyAnswered /\ res.code = "200" /\ res.req.radius # NoNum) =>
       \A r2 \in Radii :
         r2 >= res.req.radius[1] =>
           \A r \in getNearbyShops([latitude |-> res.req.latitude, longitude |-> Num(0),
                                    radius |-> Num(r2), limit |-> res.req.limit]) :
             Ids(res.data) \subseteq Ids(r.data)

\* C15: the list a nearby-shops response carries is the first `limit` elements,
\* in distance order, of the approved shops within the radius the request works
\* with.
C15_ExactlyFirstLimitWithinRadius ==
  /\ (NearbyAnswered /\ res.code = "200") =>
       \E d \in findNearby(res.req.latitude[1], 0, RequestRadius(res.req),
                           RequestLimit(res.req)) :
         Ids(d) = Ids(res.data) /\ Len(d) = Len(res.data)
  /\ res.op = "findNearby" =>
       /\ \A i \in 1..Len(res.data) :
            /\ res.data[i].meters <= res.req.radius[1]
            /\ res.data[i].status = "approved"
       /\ Len(res.data) <= res.req.limit[1]

-----------------------------------------------------------------------------
(* Properties of products (SpecProducts) *)

\* C17: every stored product belongs to a shop that exists, and once
\* deleteShop(s) has completed no product of s is stored.
C17_NoProductWithoutShop ==
  /\ \A p \in ProductIds : products[p] # NoProduct => Exists(products[p].shop)
  /\ (res.op = "deleteShop" /\ res.code = "ok") => ProductsOf(res.id) = {}

\* C18: a request that ends in an error has changed nothing: a deleteShop that
\* ends in 'Shop not found' has deleted no product, and after an updateProduct
\* that ends in an error the product's image is still in the bucket.
C18_FailedRequestChangesNothing ==
  /\ (res.op = "deleteShop" /\ res.code = "error") => res.removed = {}
  /\ (res.op = "updateProduct" /\ res.code = "500" /\ products[res.id] # NoProduct)
       => (products[res.id].imageUrl = NULL \/ products[res.id].imageUrl \in objects)
-----------------------------------------------------------------------------
(* Properties of the stored coordinates (SpecCoords) *)

\* C21: every stored shop has a latitude and a longitude, the latitude within
\* [-90, 90] and the longitude within [-180, 180], after any sequence of
\* createShop and updateShop calls.
C21_CoordinatesDefinedAndInRange ==
  \A s \in DOMAIN shops :
    Exists(s) =>
      /\ shops[s].lat # NoCoord /\ shops[s].lng # NoCoord
      /\ shops[s].lat \in -90..90
      /\ shops[s].lng \in -180..180


-----------------------------------------------------------------------------
(* Properties of the product data (SpecProductData) *)

\* C22: every stored product has a price of at least 0 and a stock level that
\* is a non-negative whole number, after any sequence of createProduct,
\* createFromCatalog and updateProduct calls.
C22_PriceAndStockNonNegative ==
  \A p \in ProductIds :
    products[p] # NoProduct =>
      /\ products[p].price >= 0
      /\ products[p].stock >= 0
      /\ IsWhole(products[p].stock)


-----------------------------------------------------------------------------
(* Properties of concurrent calls (SpecRace) *)

\* C23: when the write of an edit reaches the store, every field the edit
\* supplied (name, category, address, latitude, longitude) holds the edit's value
\* and every field it did not supply is as it was, so that after two concurrent
\* edits each field holds the value of the last edit that supplied it.
C23_LastWriteWinsPerField ==
  [][\A c \in Slots :
       (calls[c].pc = "shop_read" /\ calls'[c].pc = "idle") =>
         LET d == calls[c].data
             s == calls[c].shopId
         IN /\ shops'[s].name = SetField(shops[s].name, d.name)
            /\ shops'[s].category = SetField(shops[s].category, d.category)
            /\ shops'[s].address = SetField(shops[s].address, d.address)
            /\ shops'[s].lat = IF d.latitude = NoNum THEN shops[s].lat ELSE d.latitude[1]
            /\ shops'[s].lng = IF d.longitude = NoNum THEN shops[s].lng
                               ELSE d.longitude[1]]_vars

\* C25: a write that changes the name, category or address of a shop that is
\* approved in the store leaves the shop pending, in every interleaving of
\* approvals and edits.
C25_CriticalWriteAfterApprovalIsPending ==
  [][\A s \in DOMAIN shops :
       (/\ Exists(s) /\ shops[s].status = "approved"
        /\ CriticalValueChanged(shops[s], shops'[s]))
         => shops'[s].status = "pending"]_vars

\* C29: each owner has at most one shop, also when createShop calls of one
\* owner run concurrently.
C29_OneShopPerOwner ==
  \A s, t \in DOMAIN shops :
    (Exists(s) /\ Exists(t) /\ shops[s].owner = shops[t].owner) => s = t


-----------------------------------------------------------------------------
(* Properties of the SQL data layer (SpecRows) *)

-----------------------------------------------------------------------------
(* Properties of authentication and authorization (SpecAuth) *)

\* C26: a request gets past authenticate only if its token verifies and the
\* token's user exists and is active when the request is made, and the role
\* that gates it is the user's stored type, not the type in the token; a
\* request with the token of a deactivated user is answered 401.
C26_AuthenticatedMeansActiveAndStoredRole ==
  [][LET token == res'.data[1] IN
     /\ (res'.op \in {"request", "updateUserStatus", "updateProduct", "deleteProduct"}
         /\ res'.code # "401")
          => /\ token.valid
             /\ token.sub \in DOMAIN users
             /\ users[token.sub].is_active
     /\ res'.op = "request" =>
          /\ res'.code = "handler" =>
               token.sub \in DOMAIN users /\ users[token.sub].user_type \in res'.data[2]
          /\ res'.code = "403" =>
               token.sub \in DOMAIN users /\ users[token.sub].user_type \notin res'.data[2]]_vars

\* The token of a deactivated user, which verifies and was issued with type
\* admin, is refused on an admin route.
C26_Witness ==
  /\ res.op = "request" /\ res.code = "401" /\ res.data[1].valid
  /\ res.data[1].sub \in DOMAIN users /\ ~users[res.data[1].sub].is_active
  /\ res.data[1].type = "admin" /\ res.data[2] = {"admin"}

\* C27: updateProduct and deleteProduct change or remove a product only for the
\* shopkeeper who owns the product's shop or for an admin; any other
\* authenticated caller is answered 403 and the product and its image stay.
C27_OnlyOwnerOrAdminChangesProduct ==
  [][\A p \in ProductIds :
       (/\ res'.op \in {"updateProduct", "deleteProduct"} /\ res'.id = p
        /\ products[p] # NoProduct /\ res'.code \notin {"401", "400"})
         => LET caller == res'.data[1].sub
                allowed == \/ users[caller].user_type = "admin"
                           \/ /\ users[caller].user_type = "shopkeeper"
                              /\ shops[products[p].shop].owner = caller
            IN IF allowed
               THEN res'.code = "200"
               ELSE /\ res'.code = "403"
                    /\ products'[p] = products[p]
                    /\ objects' = objects]_vars

\* C28: updateUserStatus never deactivates the calling admin's own account:
\* with the caller as target and isActive false it answers 'Cannot deactivate
\* your own account' and the account stays active.
C28_NoSelfDeactivation ==
  (/\ res.op = "updateUserStatus" /\ res.id = res.actor
   /\ res.data[2] = "false" /\ res.code \notin {"401", "403"})
    => /\ res.code = "Cannot deactivate your own account"
       /\ users[res.actor].is_active


-----------------------------------------------------------------------------
(* Properties of one-time passwords (SpecOtp) *)

\* C30: verifyOtp succeeds only for a verification id that sendOtp returned at
\* most 10 minutes earlier and with the stored password, and it does succeed
\* for such an id throughout the 10 minutes; every id is in the store for the
\* 10 minutes after it was returned and not after them; a verifyOtp that fails
\* creates no user and issues no token.
C30_OtpVerifiableForTenMinutes ==
  [][/\ res'.op = "verifyOtp" =>
          LET id == res'.data[1]
              otp == res'.data[2]
              issued == \E t \in otpStore.timers : t.id = id /\ t.due = id[2] + Ttl
              stored == \E e \in otpStore.entries : e.id = id /\ e.storedOtp = otp
          IN /\ res'.code = "ok" =>
                  issued /\ stored /\ id[2] <= now /\ now - id[2] <= Ttl
             /\ (issued /\ stored /\ now - id[2] < Ttl) => res'.code = "ok"
             /\ res'.code # "ok" => (accounts' = accounts /\ res'.inj = Undef)
     /\ \A t \in otpStore'.timers : \E e \in otpStore'.entries : e.id = t.id
     /\ \A e \in otpStore'.entries :
          /\ e.id[2] <= now' /\ now' < e.id[2] + Ttl
          /\ \E t \in otpStore'.timers : t.id = e.id]_vars

\* After a verification has succeeded, a verification fails for an id that
\* sendOtp may have returned exactly 10 minutes earlier.
C30_Witness ==
  /\ res.op = "verifyOtp"
  /\ res.code = "Invalid or expired verification ID"
  /\ res.data[1][1] \in OtpPhones
  /\ now = res.data[1][2] + Ttl
  /\ accounts # {}


====
